---- MODULE Spec2Model ----
(***************************************************************************)
(* Model of s54http/utils.py: the bounded cache (Cache), the TLS context   *)
(* factory (SSLCtxFactory) and the double-fork daemonize routine.          *)
(* Each component has its own specification (SpecCache, SpecSSL,           *)
(* SpecDaemon); the variables of the other components stay at rest.        *)
(***************************************************************************)
EXTENDS Integers, Sequences, FiniteSets, TLC

VARIABLES limit, items, hist, cres, latest,
          heap, fac, rest, pick, built, sres, cargs,
          procs, pidfile, flog, env,
          config, cli, onDisk, ares,
          ninst, nobjs, ncur, nchain, nraised

cacheVars == <<limit, items, hist, cres, latest>>

sslVars == <<heap, fac, rest, pick, built, sres, cargs>>

daemonVars == <<procs, pidfile, flog, env>>

argsVars == <<config, cli, onDisk, ares>>

nullVars == <<ninst, nobjs, ncur, nchain, nraised>>

vars == <<limit, items, hist, cres, latest, heap, fac, rest, pick, built, sres, cargs,
          procs, pidfile, flog, env, config, cli, onDisk, ares,
          ninst, nobjs, ncur, nchain, nraised>>

(***************************************************************************)
(* Bounds of the model.                                                    *)
(***************************************************************************)
MaxLimit == 2
NumKeys == 3
MaxOps == 4
MaxCtx == 3
MaxCalls == 2
MaxChain == 3

Keys == 1..NumKeys
Vals == {"x", "y"}
None == "None"

(***************************************************************************)
(* Cache(collections.OrderedDict): the dictionary is a sequence of         *)
(* [k, v] entries, oldest first, with pairwise distinct keys.              *)
(***************************************************************************)
KeySet(d) == {d[i].k : i \in 1..Len(d)}

KeyOrder(d) == [i \in 1..Len(d) |-> d[i].k]

HasKey(d, key) == \E i \in 1..Len(d) : d[i].k = key

Lookup(d, key) == d[CHOOSE i \in 1..Len(d) : d[i].k = key].v

\* Mutant of PopItemFirst: popitem() with its default last=True.
PopItemLast(d) == SubSeq(d, 1, Len(d) - 1)

\* OrderedDict.popitem(last=False): drops the oldest entry.
PopItemFirst(d) == Tail(d)

\* Mutant of LoopCond: evicts only above the limit.
LoopCondOffByOne(d, lim) == Len(d) > lim

\* The loop condition of Cache.__setitem__.
LoopCond(d, lim) == Len(d) >= lim

\* The while loop of Cache.__setitem__; popitem on an empty dictionary
\* raises KeyError.
RECURSIVE EvictLoop(_, _)
EvictLoop(d, lim) ==
    IF LoopCond(d, lim)
    THEN IF d = <<>>
         THEN [d |-> d, raised |-> "KeyError"]
         ELSE EvictLoop(PopItemFirst(d), lim)
    ELSE [d |-> d, raised |-> None]

\* OrderedDict.__setitem__: a stored key keeps its position and gets the
\* new value, a new key is appended at the end.
DictSetItem(d, key, value) ==
    IF HasKey(d, key)
    THEN [i \in 1..Len(d) |-> IF d[i].k = key THEN [k |-> key, v |-> value] ELSE d[i]]
    ELSE Append(d, [k |-> key, v |-> value])

\* Mutant of SetItem: the entry is stored first and the eviction loop runs
\* after it.
SetItemInsertFirst(d, lim, key, value) == EvictLoop(DictSetItem(d, key, value), lim)

\* Cache.__setitem__ as a function of the dictionary.
SetItem(d, lim, key, value) ==
    LET r == EvictLoop(d, lim)
    IN  IF r.raised # None
        THEN r
        ELSE [d |-> DictSetItem(r.d, key, value), raised |-> None]

NoCacheOp == [op |-> "none", key |-> 0, val |-> None, raised |-> None, pre |-> <<>>]

\* Cache.__init__
CacheInit ==
    /\ limit \in 0..MaxLimit
    /\ items = <<>>
    /\ hist = <<>>
    /\ cres = NoCacheOp
    /\ latest = [k \in Keys |-> None]

\* Mutant of AfterGet: a read moves the entry to the end (LRU promotion).
MoveToEnd(d, key) ==
    IF HasKey(d, key)
    THEN LET i == CHOOSE j \in 1..Len(d) : d[j].k = key
         IN  Append(SubSeq(d, 1, i - 1) \o SubSeq(d, i + 1, Len(d)), d[i])
    ELSE d

\* OrderedDict.__getitem__ leaves the dictionary as it is.
AfterGet(d, key) == d

\* cache[key] = value
Put(key, value) ==
    /\ Len(hist) < MaxOps
    /\ LET r == SetItem(items, limit, key, value)
       IN  /\ items' = r.d
           /\ cres' = [op |-> "put", key |-> key, val |-> value,
                       raised |-> r.raised, pre |-> items]
           /\ latest' = IF r.raised = None
                        THEN [latest EXCEPT ![key] = value]
                        ELSE latest
    /\ hist' = Append(hist, key)
    /\ UNCHANGED limit
    /\ UNCHANGED <<sslVars, daemonVars, argsVars, nullVars>>

\* cache[key]
Get(key) ==
    /\ cres' = IF HasKey(items, key)
               THEN [op |-> "get", key |-> key, val |-> Lookup(items, key),
                     raised |-> None, pre |-> items]
               ELSE [op |-> "get", key |-> key, val |-> None,
                     raised |-> "KeyError", pre |-> items]
    /\ items' = AfterGet(items, key)
    /\ UNCHANGED <<limit, hist, latest>>
    /\ UNCHANGED <<sslVars, daemonVars, argsVars, nullVars>>


(***************************************************************************)
(* SSLCtxFactory.  An object is its __dict__, a function from attribute    *)
(* names to values; SSL.Context objects live in heap and are named by      *)
(* their index there (object identity), CtxNone standing for None.         *)
(***************************************************************************)
CtxNone == 0

EmptyDict == [a \in {} |-> None]

Truthy(x) == x \notin {None, ""}

CipherList == "ECDHE-RSA-AES128-GCM-SHA256"

VerifyFlags == {"VERIFY_PEER", "VERIFY_FAIL_IF_NO_PEER_CERT", "VERIFY_CLIENT_ONCE"}

\* The steps that can raise: loading the certificate, the private key, the
\* key/certificate match, the CA bundle, the DH parameters, the cipher list.
FailPoints == {"none", "cert", "key", "check", "ca", "dh", "cipher"}

\* SSL.Context(SSL.TLSv1_2_METHOD)
NewContext ==
    [method |-> "TLSv1_2_METHOD", options |-> {}, cert |-> None, key |-> None,
     checked |-> FALSE, ca |-> None, dh |-> None, ciphers |-> None,
     verify |-> {}, callback |-> None, steps |-> <<>>]

\* Mutant of Program: the handle is stored right after the context is
\* created, before it is configured.
ProgramStoreEarly(d) ==
    <<"store", "no_sslv2", "no_sslv3", "no_tlsv1", "no_tlsv1_1",
      "cert", "key", "check", "ca">>
    \o (IF Truthy(d._dhparam) THEN <<"dh">> ELSE <<>>)
    \o <<"cipher", "verify">>

\* Mutant of Program: the DH parameters are loaded whether or not a path
\* was given.
ProgramAlwaysDH(d) ==
    <<"no_sslv2", "no_sslv3", "no_tlsv1", "no_tlsv1_1",
      "cert", "key", "check", "ca", "dh", "cipher", "verify", "store">>

\* The statements of cacheContext after SSL.Context(), in order; the DH
\* step only when self._dhparam is truthy, the store of self._ctx last.
Program(d) ==
    <<"no_sslv2", "no_sslv3", "no_tlsv1", "no_tlsv1_1",
      "cert", "key", "check", "ca">>
    \o (IF Truthy(d._dhparam) THEN <<"dh">> ELSE <<>>)
    \o <<"cipher", "verify", "store">>

\* The local function verify of __init__, the default callback.
DefaultVerify(conn, x509, errno, errdepth, ok) == ok

\* Mutant of VerifyMode: a client context only asks for the peer
\* certificate.
VerifyModeByRole(d) == IF d.isClient THEN {"VERIFY_PEER"} ELSE VerifyFlags

\* The mode passed to ctx.set_verify: the same for both roles.
VerifyMode(d) == VerifyFlags

\* One statement of cacheContext applied to the context being built.
ApplyStep(ctx, step, d) ==
    LET c == [ctx EXCEPT !.steps = Append(@, step)]
    IN  CASE step = "no_sslv2"   -> [c EXCEPT !.options = @ \cup {"OP_NO_SSLv2"}]
          [] step = "no_sslv3"   -> [c EXCEPT !.options = @ \cup {"OP_NO_SSLv3"}]
          [] step = "no_tlsv1"   -> [c EXCEPT !.options = @ \cup {"OP_NO_TLSv1"}]
          [] step = "no_tlsv1_1" -> [c EXCEPT !.options = @ \cup {"OP_NO_TLSv1_1"}]
          [] step = "cert"       -> [c EXCEPT !.cert = d._cert]
          [] step = "key"        -> [c EXCEPT !.key = d._key]
          [] step = "check"      -> [c EXCEPT !.checked = TRUE]
          [] step = "ca"         -> [c EXCEPT !.ca = d._ca]
          [] step = "dh"         -> [c EXCEPT !.dh = d._dhparam]
          [] step = "cipher"     -> [c EXCEPT !.ciphers = CipherList]
          [] step = "verify"     -> [c EXCEPT !.verify = VerifyMode(d),
                                              !.callback = d._callback]
          [] OTHER               -> ctx

\* Runs the statements prog[i..] on the run state r = [ctx, stored, raised];
\* the statement named failAt raises SSL.Error and ends the run.
RECURSIVE RunFrom(_, _, _, _, _)
RunFrom(prog, i, r, d, failAt) ==
    IF i > Len(prog) THEN r
    ELSE IF prog[i] = failAt THEN [r EXCEPT !.raised = "SSL.Error"]
    ELSE IF prog[i] = "store"
         THEN RunFrom(prog, i + 1, [r EXCEPT !.stored = TRUE], d, failAt)
         ELSE RunFrom(prog, i + 1,
                      [r EXCEPT !.ctx = ApplyStep(r.ctx, prog[i], d)], d, failAt)

\* Mutant of HasContext: the early return of cacheContext is lost.
HasContextNever(d) == FALSE

\* The guard of cacheContext: self._ctx is not None.
HasContext(d) == d._ctx # CtxNone

\* cacheContext on the object dictionary d with the context heap h:
\* the new dictionary, the new heap and the exception raised, if any.
CacheContextOn(d, h, failAt) ==
    IF "_ctx" \notin DOMAIN d
    THEN [d |-> d, heap |-> h, raised |-> "AttributeError"]
    ELSE IF HasContext(d)
    THEN [d |-> d, heap |-> h, raised |-> None]
    ELSE LET r == RunFrom(Program(d), 1,
                          [ctx |-> NewContext, stored |-> FALSE, raised |-> None],
                          d, failAt)
         IN  IF r.stored
             THEN [d |-> [d EXCEPT !._ctx = Len(h) + 1],
                   heap |-> Append(h, r.ctx), raised |-> r.raised]
             ELSE [d |-> d, heap |-> h, raised |-> r.raised]

Unborn == [status |-> "unborn", d |-> EmptyDict]

NoSSLOp == [op |-> "none", obj |-> "none", ret |-> CtxNone, raised |-> None,
            prev |-> "none"]

\* The outcome of an operation: what it returned or raised, and the
\* operation that came before it.
SOp(op, o, ret, raised) ==
    [op |-> op, obj |-> o, ret |-> ret, raised |-> raised, prev |-> sres.op]

\* The arguments of the constructor call and the build step that fails in
\* the environment of that call.
NoArgs == [client |-> FALSE, dh |-> None, cb |-> None, fail |-> "none"]

SSLQuiet ==
    /\ heap = <<>>
    /\ fac = Unborn
    /\ rest = Unborn
    /\ pick = [has |-> FALSE, state |-> EmptyDict]
    /\ built = CtxNone
    /\ sres = NoSSLOp
    /\ cargs = NoArgs

Obj(o) == IF o = "fac" THEN fac ELSE rest

Usable(o) == Obj(o).status \in {"ok", "restored"}

\* SSLCtxFactory(client, ca, key, cert, dhparam=dh, callback=cb)
Construct(client, dh, cb, failAt) ==
    /\ fac.status = "unborn"
    /\ LET d0 == [isClient |-> client, _ca |-> "ca.pem", _key |-> "key.pem",
                  _cert |-> "cert.pem", _dhparam |-> dh, _ctx |-> CtxNone,
                  _callback |-> IF cb = None THEN "verify" ELSE cb]
           r == CacheContextOn(d0, heap, failAt)
       IN  /\ fac' = [status |-> IF r.raised = None THEN "ok" ELSE "failed", d |-> r.d]
           /\ heap' = r.heap
           /\ built' = r.d._ctx
           /\ sres' = SOp("init", "fac", CtxNone, r.raised)
    /\ cargs' = [client |-> client, dh |-> dh, cb |-> cb, fail |-> failAt]
    /\ UNCHANGED <<rest, pick>>
    /\ UNCHANGED <<cacheVars, daemonVars, argsVars, nullVars>>

\* o.cacheContext()
CacheContext(o, failAt) ==
    /\ Usable(o)
    /\ Len(heap) < MaxCtx
    /\ LET r == CacheContextOn(Obj(o).d, heap, failAt)
       IN  /\ IF o = "fac"
              THEN fac' = [fac EXCEPT !.d = r.d] /\ UNCHANGED rest
              ELSE rest' = [rest EXCEPT !.d = r.d] /\ UNCHANGED fac
           /\ heap' = r.heap
           /\ sres' = SOp("cacheContext", o, CtxNone, r.raised)
    /\ UNCHANGED <<pick, built, cargs>>
    /\ UNCHANGED <<cacheVars, daemonVars, argsVars, nullVars>>

\* o.getContext()
GetContext(o) ==
    /\ Usable(o)
    /\ sres' = IF "_ctx" \in DOMAIN Obj(o).d
               THEN SOp("getContext", o, Obj(o).d._ctx, None)
               ELSE SOp("getContext", o, CtxNone, "AttributeError")
    /\ UNCHANGED <<heap, fac, rest, pick, built, cargs>>
    /\ UNCHANGED <<cacheVars, daemonVars, argsVars, nullVars>>

\* o.__getstate__(): a copy of the dictionary without '_ctx'.
GetState(o) ==
    /\ Usable(o)
    /\ IF "_ctx" \in DOMAIN Obj(o).d
       THEN /\ pick' = [has |-> TRUE,
                        state |-> [a \in DOMAIN Obj(o).d \ {"_ctx"} |-> Obj(o).d[a]]]
            /\ sres' = SOp("getstate", o, CtxNone, None)
       ELSE /\ pick' = pick
            /\ sres' = SOp("getstate", o, CtxNone, "KeyError")
    /\ UNCHANGED <<heap, fac, rest, built, cargs>>
    /\ UNCHANGED <<cacheVars, daemonVars, argsVars, nullVars>>

\* A new object made without __init__ (as unpickling does), then
\* __setstate__(state) on it.
SetState ==
    /\ pick.has
    /\ rest' = [status |-> "restored", d |-> pick.state]
    /\ sres' = SOp("setstate", "rest", CtxNone, None)
    /\ UNCHANGED <<heap, fac, pick, built, cargs>>
    /\ UNCHANGED <<cacheVars, daemonVars, argsVars, nullVars>>

NextSSL ==
    \/ \E client \in BOOLEAN, dh \in {None, "", "dh.pem"}, cb \in {None, "pin"},
          failAt \in FailPoints : Construct(client, dh, cb, failAt)
    \/ \E o \in {"fac", "rest"}, failAt \in FailPoints : CacheContext(o, failAt)
    \/ \E o \in {"fac", "rest"} : GetContext(o)
    \/ \E o \in {"fac", "rest"} : GetState(o)
    \/ SetState

CacheQuiet ==
    /\ limit = 0
    /\ items = <<>>
    /\ hist = <<>>
    /\ cres = NoCacheOp
    /\ latest = [k \in Keys |-> None]


(***************************************************************************)
(* daemonize.  procs[p] is the process with id p: its position in          *)
(* daemonize, what it has done so far (trace) and its process attributes.  *)
(* pidfile is the file at the PID-file path, an absolute path as           *)
(* parse_args makes it; flog lists the writes and removals of that file.   *)
(***************************************************************************)
Streams == {"stdin", "stdout", "stderr"}

PidFileAbsent == [exists |-> FALSE, content |-> 0, gen |-> 0]

\* The process that calls daemonize: in the foreground, on its terminal.
Caller ==
    [pc |-> "start", role |-> "caller", parent |-> 0, status |-> -1,
     err |-> None, hooks |-> 0, hooks0 |-> 0, calls |-> 0, trace |-> <<>>,
     seen |-> PidFileAbsent, fdgen |-> 0,
     cwd |-> "/home", umask |-> "022", session |-> "login",
     fds |-> [s \in Streams |-> "tty"]]

DaemonQuiet ==
    /\ procs = <<>>
    /\ pidfile = PidFileAbsent
    /\ flog = <<>>
    /\ env = [badOpen |-> {}, pidWritable |-> TRUE]

\* One caller; the PID file absent or left by another instance; any of the
\* three redirection targets may be impossible to open, and so may the
\* PID file.
DaemonInit ==
    /\ procs = <<Caller>>
    /\ pidfile \in {PidFileAbsent, [exists |-> TRUE, content |-> 99, gen |-> 0]}
    /\ flog = <<>>
    /\ env \in [badOpen : SUBSET Streams, pidWritable : BOOLEAN]

Pids == 1..Len(procs)

\* Mutant of PidFileExists: the already-running guard never fires.
PidFileExistsNever(f) == FALSE

\* os.path.exists(pidfile)
PidFileExists(f) == f.exists

\* Mutant of PidToWrite: writes os.getppid().
ParentPid(p) == procs[p].parent

\* os.getpid()
PidToWrite(p) == p

\* Mutant of AfterStep: the PID file is written before the streams are
\* redirected.
AfterStepWriteFirst(pc) ==
    CASE pc = "fork1"        -> "session"
      [] pc = "session"      -> "fork2"
      [] pc = "fork2"        -> "open_pid"
      [] pc = "open_pid"     -> "write_pid"
      [] pc = "write_pid"    -> "redir_stdin"
      [] pc = "redir_stdin"  -> "redir_stdout"
      [] pc = "redir_stdout" -> "redir_stderr"
      [] pc = "redir_stderr" -> "register"
      [] pc = "register"     -> "daemonized"

\* Mutant of AfterStep: the exit hook is registered before the PID file is
\* written.
AfterStepRegisterFirst(pc) ==
    CASE pc = "fork1"        -> "session"
      [] pc = "session"      -> "fork2"
      [] pc = "fork2"        -> "redir_stdin"
      [] pc = "redir_stdin"  -> "redir_stdout"
      [] pc = "redir_stdout" -> "redir_stderr"
      [] pc = "redir_stderr" -> "register"
      [] pc = "register"     -> "open_pid"
      [] pc = "open_pid"     -> "write_pid"
      [] pc = "write_pid"    -> "daemonized"

\* The statement order of daemonize after the guard: where a process
\* goes on when the step at pc has succeeded.
AfterStep(pc) ==
    CASE pc = "fork1"        -> "session"
      [] pc = "session"      -> "fork2"
      [] pc = "fork2"        -> "redir_stdin"
      [] pc = "redir_stdin"  -> "redir_stdout"
      [] pc = "redir_stdout" -> "redir_stderr"
      [] pc = "redir_stderr" -> "open_pid"
      [] pc = "open_pid"     -> "write_pid"
      [] pc = "write_pid"    -> "register"
      [] pc = "register"     -> "daemonized"

StreamPc(s) ==
    CASE s = "stdin"  -> "redir_stdin"
      [] s = "stdout" -> "redir_stdout"
      [] s = "stderr" -> "redir_stderr"

\* The exception leaves daemonize.
Raise(pr, what, event) ==
    [pr EXCEPT !.pc = "raised", !.err = what, !.trace = Append(@, event)]

\* raise SystemExit(code)
SysExit(pr, code) == [pr EXCEPT !.pc = "exiting", !.err = "SystemExit", !.status = code]

\* Mutant of AfterFork: the test of the fork result is inverted, the child
\* exits and the parent goes on.
AfterForkInverted(pr, at, isParent) ==
    IF isParent THEN [pr EXCEPT !.pc = AfterStep(at)] ELSE SysExit(pr, 0)

\* if os.fork() > 0: raise SystemExit(0): the parent exits with status 0,
\* the child goes on with the next statement.
AfterFork(pr, at, isParent) ==
    IF isParent THEN SysExit(pr, 0) ELSE [pr EXCEPT !.pc = AfterStep(at)]

\* Mutant of RemovesAtExit: the PID file is removed only on an exit with
\* status 0.
RemovesAtExitOnSuccess(pr) == pr.hooks > 0 /\ pr.status = 0

\* The exit functions registered by daemonize run at every exit of the
\* process through the interpreter.
RemovesAtExit(pr) == pr.hooks > 0

\* daemonize is called; the already-running guard.
CheckPidFile(p) ==
    /\ procs[p].pc \in {"start", "daemonized"}
    /\ procs[p].calls < MaxCalls
    /\ LET pr == [procs[p] EXCEPT !.calls = @ + 1, !.hooks0 = procs[p].hooks,
                                  !.seen = pidfile, !.err = None,
                                  !.trace = <<"exists">>]
       IN  procs' = [procs EXCEPT ![p] =
                        IF PidFileExists(pidfile)
                        THEN SysExit([pr EXCEPT !.trace = Append(@, "guard_exit")], 1)
                        ELSE [pr EXCEPT !.pc = "fork1"]]
    /\ UNCHANGED <<pidfile, flog, env>>
    /\ UNCHANGED <<cacheVars, sslVars, argsVars, nullVars>>

\* os.fork() at at = "fork1" or "fork2": on failure RuntimeError; else the
\* parent raises SystemExit(0) and the child, a copy of it, goes on.
Fork(p, at, ok) ==
    /\ procs[p].pc = at
    /\ at \in {"fork1", "fork2"}
    /\ IF ok
       THEN LET pr == [procs[p] EXCEPT !.trace = Append(@, at)]
                child == [AfterFork(pr, at, FALSE) EXCEPT
                             !.parent = p,
                             !.role = IF at = "fork1" THEN "child1" ELSE "child2"]
            IN  procs' = Append([procs EXCEPT ![p] = AfterFork(pr, at, TRUE)], child)
       ELSE procs' = [procs EXCEPT ![p] =
                         Raise(@, IF at = "fork1" THEN "RuntimeError: fork #1 failed"
                                                  ELSE "RuntimeError: fork #2 failed",
                               IF at = "fork1" THEN "fork1_failed" ELSE "fork2_failed")]
    /\ UNCHANGED <<pidfile, flog, env>>
    /\ UNCHANGED <<cacheVars, sslVars, argsVars, nullVars>>

\* os.chdir('/'); os.umask(0); os.setsid()
NewSession(p) ==
    /\ procs[p].pc = "session"
    /\ procs' = [procs EXCEPT ![p] =
                    [@ EXCEPT !.pc = AfterStep("session"),
                              !.cwd = "/", !.umask = "0", !.session = "own",
                              !.trace = @ \o <<"chdir", "umask", "setsid">>]]
    /\ UNCHANGED <<pidfile, flog, env>>
    /\ UNCHANGED <<cacheVars, sslVars, argsVars, nullVars>>

\* with open(target, mode, 0) as fp: os.dup2(fp.fileno(), stream.fileno());
\* the two flushes come before the first open.
Redirect(p, s) ==
    /\ procs[p].pc = StreamPc(s)
    /\ LET pr == IF s = "stdin"
                 THEN [procs[p] EXCEPT !.trace = Append(@, "flush")]
                 ELSE procs[p]
       IN  procs' = [procs EXCEPT ![p] =
                        IF s \in env.badOpen
                        THEN Raise(pr, "OSError: open", "open_failed")
                        ELSE [pr EXCEPT !.pc = AfterStep(StreamPc(s)),
                                        !.fds[s] = "target",
                                        !.trace = Append(@, s)]]
    /\ UNCHANGED <<pidfile, flog, env>>
    /\ UNCHANGED <<cacheVars, sslVars, argsVars, nullVars>>

\* open(pidfile, 'w'): creates the file, or empties the one that is there.
OpenPidFile(p) ==
    /\ procs[p].pc = "open_pid"
    /\ IF env.pidWritable
       THEN LET g == IF pidfile.exists THEN pidfile.gen ELSE pidfile.gen + 1
            IN  /\ pidfile' = [exists |-> TRUE, content |-> 0, gen |-> g]
                /\ flog' = Append(flog, [pid |-> p, ev |-> "open", call |-> procs[p].calls])
                /\ procs' = [procs EXCEPT ![p] =
                                [@ EXCEPT !.pc = AfterStep("open_pid"), !.fdgen = g,
                                          !.trace = Append(@, "open_pid")]]
       ELSE /\ procs' = [procs EXCEPT ![p] =
                            Raise(@, "OSError: pidfile", "pidfile_failed")]
            /\ UNCHANGED <<pidfile, flog>>
    /\ UNCHANGED env
    /\ UNCHANGED <<cacheVars, sslVars, argsVars, nullVars>>

\* print(os.getpid(), file=fp) and the close that flushes it: the text
\* lands in the file that was opened, which may no longer be at the path.
WritePid(p) ==
    /\ procs[p].pc = "write_pid"
    /\ pidfile' = IF pidfile.exists /\ pidfile.gen = procs[p].fdgen
                  THEN [pidfile EXCEPT !.content = PidToWrite(p)]
                  ELSE pidfile
    /\ flog' = Append(flog, [pid |-> p, ev |-> "write", call |-> procs[p].calls])
    /\ procs' = [procs EXCEPT ![p] =
                    [@ EXCEPT !.pc = AfterStep("write_pid"),
                              !.trace = Append(@, "write_pid")]]
    /\ UNCHANGED env
    /\ UNCHANGED <<cacheVars, sslVars, argsVars, nullVars>>

\* atexit.register(lambda: os.remove(pidfile)); daemonize returns.
Register(p) ==
    /\ procs[p].pc = "register"
    /\ procs' = [procs EXCEPT ![p] =
                    [@ EXCEPT !.pc = AfterStep("register"), !.hooks = @ + 1,
                              !.trace = Append(@, "register")]]
    /\ UNCHANGED <<pidfile, flog, env>>
    /\ UNCHANGED <<cacheVars, sslVars, argsVars, nullVars>>

\* The process ends: normally after daemonize has returned, with status 1
\* when the exception of daemonize is not caught.
Exit(p) ==
    /\ procs[p].pc \in {"daemonized", "raised"}
    /\ procs' = [procs EXCEPT ![p] =
                    [@ EXCEPT !.pc = "exiting",
                              !.status = IF procs[p].pc = "raised" THEN 1 ELSE 0]]
    /\ UNCHANGED <<pidfile, flog, env>>
    /\ UNCHANGED <<cacheVars, sslVars, argsVars, nullVars>>

\* Interpreter shutdown runs the registered exit functions: each is
\* os.remove(pidfile), which raises (and is ignored) when the file is gone.
RunExitHooks(p) ==
    /\ procs[p].pc = "exiting"
    /\ procs' = [procs EXCEPT ![p] = [@ EXCEPT !.pc = "terminated"]]
    /\ IF RemovesAtExit(procs[p]) /\ pidfile.exists
       THEN /\ pidfile' = [pidfile EXCEPT !.exists = FALSE, !.content = 0]
            /\ flog' = Append(flog, [pid |-> p, ev |-> "remove", call |-> procs[p].calls])
       ELSE UNCHANGED <<pidfile, flog>>
    /\ UNCHANGED env
    /\ UNCHANGED <<cacheVars, sslVars, argsVars, nullVars>>

(***************************************************************************)
(* parse_args: the merge of the command line into the configuration and    *)
(* the loop over the path settings.  A path value is "rel" (relative) or   *)
(* "abs" (absolute); onDisk is the set of path settings whose file, as     *)
(* named after the merge, exists.                                          *)
(***************************************************************************)
PATH_ARGUMENT == <<"ca", "key", "cert", "dhparam", "pidfile", "logfile">>

FILE_ARGUMENT == {"ca", "arg", "cert"}

PathArgs == {PATH_ARGUMENT[i] : i \in 1..Len(PATH_ARGUMENT)}

NoArgsOp == [done |-> FALSE, raised |-> None]

ArgsQuiet ==
    /\ config = [a \in PathArgs |-> "rel"]
    /\ cli = [a \in PathArgs |-> None]
    /\ onDisk = {}
    /\ ares = NoArgsOp

\* The configuration holds relative default paths; the command line gives
\* each path setting or not; any of the files may be missing.
ArgsInit ==
    /\ config = [a \in PathArgs |-> "rel"]
    /\ cli \in [PathArgs -> {None, "", "abs"}]
    /\ onDisk \in SUBSET PathArgs
    /\ ares = NoArgsOp

\* for arg in config.keys(): a command-line value replaces the configured
\* one unless it is missing or empty.
Merge(cfg, args) ==
    [a \in DOMAIN cfg |-> IF Truthy(args[a]) THEN args[a] ELSE cfg[a]]

\* str(pathlib.Path(value).absolute())
Absolute(value) == "abs"

\* The loop over PATH_ARGUMENT from its i-th element on: the new
\* configuration and the exception that ended the loop, if any.
RECURSIVE PathLoop(_, _, _)
PathLoop(cfg, i, disk) ==
    IF i > Len(PATH_ARGUMENT) THEN [config |-> cfg, raised |-> None]
    ELSE LET arg == PATH_ARGUMENT[i]
             c1 == [cfg EXCEPT ![arg] = Absolute(cfg[arg])]
         IN  IF arg \in disk THEN PathLoop(c1, i + 1, disk)
             ELSE IF arg = "dhparam"
                  THEN PathLoop([c1 EXCEPT ![arg] = None], i + 1, disk)
             ELSE IF arg \in FILE_ARGUMENT
                  THEN [config |-> c1, raised |-> "RuntimeError"]
             ELSE PathLoop(c1, i + 1, disk)

\* parse_args(config)
ParseArgs ==
    /\ ~ares.done
    /\ LET r == PathLoop(Merge(config, cli), 1, onDisk)
       IN  /\ config' = r.config
           /\ ares' = [done |-> TRUE, raised |-> r.raised]
    /\ UNCHANGED <<cli, onDisk>>
    /\ UNCHANGED <<cacheVars, sslVars, daemonVars, nullVars>>

NextArgs == ParseArgs

(***************************************************************************)
(* NullProxy.  ninst is the class attribute _instance (0 for None), nobjs  *)
(* the number of NullProxy objects made so far; ncur is the value of the   *)
(* expression built so far by NullProxy() followed by attribute accesses   *)
(* and calls, nchain the operations of that expression.                    *)
(***************************************************************************)
AttrNames == {"info", "x", "_instance", "__class__", "__doc__"}

NoValue == [kind |-> "none", id |-> 0]

Instance(i) == [kind |-> "inst", id |-> i]

TheClass == [kind |-> "class", id |-> 0]

\* A value that is neither a NullProxy object nor the class: None, type.
Other == [kind |-> "other", id |-> 0]

NullQuiet ==
    /\ ninst = 0
    /\ nobjs = 0
    /\ ncur = NoValue
    /\ nchain = <<>>
    /\ nraised = None

\* Mutant of NeedsNew: every construction makes a new object.
NeedsNewAlways(inst) == TRUE

\* if cls._instance is None
NeedsNew(inst) == inst = 0

\* NullProxy.__getattr__, called when the normal lookup finds nothing.
GetAttrFallback(self, name) == self

\* Attribute name of a NullProxy object: the normal lookup finds what the
\* class and object define, and only then __getattr__ is called.
InstanceAttr(self, name) ==
    CASE name = "_instance" -> Instance(ninst)
      [] name = "__class__" -> TheClass
      [] name = "__doc__"   -> Other
      [] OTHER              -> GetAttrFallback(self, name)

\* NullProxy.__new__(cls): the instance it returns, the class attribute
\* and the object count.
NewOn(inst, objs) ==
    IF NeedsNew(inst)
    THEN [ret |-> Instance(objs + 1), inst |-> objs + 1, objs |-> objs + 1]
    ELSE [ret |-> Instance(inst), inst |-> inst, objs |-> objs]

\* NullProxy(): a new expression starts.
NewProxy ==
    /\ LET r == NewOn(ninst, nobjs)
       IN  /\ ncur' = r.ret
           /\ ninst' = r.inst
           /\ nobjs' = r.objs
    /\ nchain' = <<"new">>
    /\ nraised' = None
    /\ UNCHANGED <<cacheVars, sslVars, daemonVars, argsVars>>

\* <expression>.name
GetAttr(name) ==
    /\ ncur.kind \in {"inst", "class"}
    /\ Len(nchain) <= MaxChain
    /\ nchain' = Append(nchain, name)
    /\ IF ncur.kind = "inst"
       THEN ncur' = InstanceAttr(ncur, name) /\ nraised' = None
       ELSE IF name = "_instance"
            THEN ncur' = Instance(ninst) /\ nraised' = None
            ELSE IF name \in {"__class__", "__doc__"}
                 THEN ncur' = Other /\ nraised' = None
                 ELSE ncur' = NoValue /\ nraised' = "AttributeError"
    /\ UNCHANGED <<ninst, nobjs>>
    /\ UNCHANGED <<cacheVars, sslVars, daemonVars, argsVars>>

\* <expression>(*args, **kwargs): __call__ on an instance, a construction
\* on the class.
Call ==
    /\ ncur.kind \in {"inst", "class"}
    /\ Len(nchain) <= MaxChain
    /\ nchain' = Append(nchain, "call")
    /\ nraised' = None
    /\ IF ncur.kind = "inst"
       THEN ncur' = ncur /\ UNCHANGED <<ninst, nobjs>>
       ELSE LET r == NewOn(ninst, nobjs)
            IN  ncur' = r.ret /\ ninst' = r.inst /\ nobjs' = r.objs
    /\ UNCHANGED <<cacheVars, sslVars, daemonVars, argsVars>>

NextNull ==
    \/ NewProxy
    \/ \E name \in AttrNames : GetAttr(name)
    \/ Call

NextDaemon ==
    \/ \E p \in Pids : CheckPidFile(p)
    \/ \E p \in Pids, at \in {"fork1", "fork2"}, ok \in BOOLEAN : Fork(p, at, ok)
    \/ \E p \in Pids : NewSession(p)
    \/ \E p \in Pids, s \in Streams : Redirect(p, s)
    \/ \E p \in Pids : OpenPidFile(p)
    \/ \E p \in Pids : WritePid(p)
    \/ \E p \in Pids : Register(p)
    \/ \E p \in Pids : Exit(p)
    \/ \E p \in Pids : RunExitHooks(p)

InitDaemon == DaemonInit /\ CacheQuiet /\ SSLQuiet /\ ArgsQuiet /\ NullQuiet

SpecDaemon == InitDaemon /\ [][NextDaemon]_vars

\* Two processes call daemonize with the same PID-file path, the file
\* absent; the steps of the processes interleave in any order.
RaceInit ==
    /\ procs = <<Caller, Caller>>
    /\ pidfile = PidFileAbsent
    /\ flog = <<>>
    /\ env \in [badOpen : {{}, {"stderr"}}, pidWritable : {TRUE}]

InitRace == RaceInit /\ CacheQuiet /\ SSLQuiet /\ ArgsQuiet /\ NullQuiet

SpecRace == InitRace /\ [][NextDaemon]_vars

InitSSL == SSLQuiet /\ CacheQuiet /\ DaemonQuiet /\ ArgsQuiet /\ NullQuiet

SpecSSL == InitSSL /\ [][NextSSL]_vars


NextCache ==
    \/ \E key \in Keys, value \in Vals : Put(key, value)
    \/ \E key \in Keys : Get(key)

InitCache == CacheInit /\ SSLQuiet /\ DaemonQuiet /\ ArgsQuiet /\ NullQuiet

SpecCache == InitCache /\ [][NextCache]_vars

InitArgs == ArgsInit /\ CacheQuiet /\ SSLQuiet /\ DaemonQuiet /\ NullQuiet

SpecArgs == InitArgs /\ [][NextArgs]_vars

InitNull == NullQuiet /\ CacheQuiet /\ SSLQuiet /\ DaemonQuiet /\ ArgsQuiet

SpecNull == InitNull /\ [][NextNull]_vars

(***************************************************************************)
(* Claims about Cache, checked under SpecCache.                            *)
(***************************************************************************)
Distinct(s) == \A i, j \in 1..Len(s) : i # j => s[i] # s[j]

\* C1: with limit N >= 1, after every put (new key or overwrite) the cache
\* holds at most N distinct keys, each stored once.
C1_SizeWithinLimit ==
    (limit >= 1 /\ cres.op = "put") =>
        /\ Cardinality(KeySet(items)) <= limit
        /\ Len(items) = Cardinality(KeySet(items))

\* C1 witness: a new key was put into a full cache and the put completed
\* with the cache full again.
C1_Witness ==
    /\ limit >= 1
    /\ cres.op = "put"
    /\ cres.raised = None
    /\ Len(cres.pre) = limit
    /\ ~HasKey(cres.pre, cres.key)
    /\ Len(items) = limit

\* C2: a put of a new key into a full cache (limit N >= 1) evicts exactly
\* the oldest entry and appends the new one, keeping the others in order;
\* and N+1 pairwise distinct puts into an empty cache leave the last N keys
\* in insertion order.
C2_EvictsOldestOnly ==
    /\ (/\ limit >= 1
        /\ cres.op = "put"
        /\ Len(cres.pre) = limit
        /\ ~HasKey(cres.pre, cres.key))
       => /\ cres.raised = None
          /\ items = Append(Tail(cres.pre), [k |-> cres.key, v |-> cres.val])
    /\ (limit >= 1 /\ Len(hist) = limit + 1 /\ Distinct(hist))
       => /\ KeyOrder(items) = SubSeq(hist, 2, limit + 1)
          /\ ~HasKey(items, hist[1])

\* C2 witness: capacity 2 after three distinct puts, the third one having
\* evicted the first key.
C2_Witness ==
    /\ limit = 2
    /\ Len(hist) = 3
    /\ Distinct(hist)
    /\ cres.op = "put"
    /\ Len(cres.pre) = 2
    /\ KeyOrder(items) = <<hist[2], hist[3]>>

\* C3: a put under a key that is already stored evicts nothing and keeps
\* the eviction order: same keys in the same order, only that key's value
\* changes.
C3_OverwriteKeepsOrder ==
    (cres.op = "put" /\ HasKey(cres.pre, cres.key)) =>
        /\ cres.raised = None
        /\ KeyOrder(items) = KeyOrder(cres.pre)
        /\ \A i \in 1..Len(items) :
              items[i].v = IF items[i].k = cres.key THEN cres.val ELSE cres.pre[i].v

\* C4: on a cache with limit 0 every put completes without an error and
\* leaves the cache empty.
C4_LimitZeroPutSucceeds ==
    (limit = 0 /\ cres.op = "put") =>
        /\ cres.raised = None
        /\ Len(items) = 0


\* The cache that the puts of h[i..] alone leave when applied to d, the
\* values left out.
RECURSIVE ReplayPuts(_, _, _, _)
ReplayPuts(h, i, d, lim) ==
    IF i > Len(h) THEN d
    ELSE ReplayPuts(h, i + 1, SetItem(d, lim, h[i], "x").d, lim)

\* C11: a get, of a stored or of an absent key, leaves keys, values and
\* order as they were; after any mix of puts and gets the keys and their
\* order are those the puts alone produce (so every put evicts what it
\* would evict without the gets); a get of a stored key returns the value
\* of the latest put of that key and a get of an absent key raises KeyError.
C11_GetLeavesCacheAlone ==
    /\ cres.op = "get" =>
          /\ items = cres.pre
          /\ IF HasKey(cres.pre, cres.key)
             THEN cres.raised = None /\ cres.val = latest[cres.key]
             ELSE cres.raised = "KeyError"
    /\ KeyOrder(items) = KeyOrder(ReplayPuts(hist, 1, <<>>, limit))
    /\ \A i \in 1..Len(items) : items[i].v = latest[items[i].k]

\* C11 witness: on a full cache of capacity 2 that has already evicted, a
\* get read the oldest entry, whose value is not the first one put.
C11_Witness ==
    /\ limit = 2
    /\ Len(hist) >= 3
    /\ cres.op = "get"
    /\ cres.raised = None
    /\ Len(items) = 2
    /\ items[1].k = cres.key
    /\ cres.val = "y"

\* C17: with limit >= 1, when a put(k, v) has completed, k is stored with
\* value v, for new keys and for overwrites, the overwrite of the oldest
\* key of a full cache included.
C17_PutKeyIsStored ==
    (limit >= 1 /\ cres.op = "put") =>
        /\ cres.raised = None
        /\ HasKey(items, cres.key)
        /\ Lookup(items, cres.key) = cres.val

\* C17 witness: the oldest key of a full cache of capacity 2 was
\* overwritten with another value and is stored with it.
C17_Witness ==
    /\ limit = 2
    /\ cres.op = "put"
    /\ Len(cres.pre) = 2
    /\ cres.pre[1].k = cres.key
    /\ cres.pre[1].v # cres.val
    /\ HasKey(items, cres.key)
    /\ Lookup(items, cres.key) = cres.val

(***************************************************************************)
(* Claims about SSLCtxFactory, checked under SpecSSL.                      *)
(***************************************************************************)
\* The context is configured by every statement of cacheContext.
Complete(ctx, d) ==
    /\ ctx.options = {"OP_NO_SSLv2", "OP_NO_SSLv3", "OP_NO_TLSv1", "OP_NO_TLSv1_1"}
    /\ ctx.cert = d._cert
    /\ ctx.key = d._key
    /\ ctx.checked
    /\ ctx.ca = d._ca
    /\ Truthy(d._dhparam) => ctx.dh = d._dhparam
    /\ ctx.ciphers = CipherList
    /\ ctx.verify = VerifyFlags
    /\ ctx.callback = d._callback

\* C8: once a factory has been constructed successfully, its handle stays
\* the context that construction built: every getContext returns that
\* object, and cacheContext neither fails, rebuilds nor replaces it.
C8_SameContextEveryCall ==
    fac.status = "ok" =>
        /\ built # CtxNone
        /\ fac.d._ctx = built
        /\ Len(heap) = 1
        /\ (sres.obj = "fac" /\ sres.op = "getContext")
           => (sres.raised = None /\ sres.ret = built)
        /\ (sres.obj = "fac" /\ sres.op = "cacheContext") => sres.raised = None

\* C8 witness: getContext on the constructed factory right after a
\* cacheContext call returned the context built by construction.
C8_Witness ==
    /\ fac.status = "ok"
    /\ sres.obj = "fac"
    /\ sres.op = "getContext"
    /\ sres.prev = "cacheContext"
    /\ sres.ret = built
    /\ built # CtxNone

\* C9: the state made by __getstate__ holds no context handle, and
\* getContext on a factory restored from it with __setstate__ returns a
\* realized context (it neither raises nor returns None).
C9_RestoredFactoryRebuilds ==
    /\ pick.has => "_ctx" \notin DOMAIN pick.state
    /\ (sres.op = "getContext" /\ sres.obj = "rest")
       => (sres.raised = None /\ sres.ret # CtxNone)

\* C10: when a build step fails, construction raises and no context is
\* stored in the factory; a stored handle always names a context that
\* every build step has configured.
C10_NoPartialContext ==
    /\ (sres.op = "init" /\ sres.raised # None) => fac.status = "failed"
    /\ fac.status = "failed" => (fac.d._ctx = CtxNone /\ built = CtxNone /\ heap = <<>>)
    /\ fac.status = "ok" =>
          (fac.d._ctx \in 1..Len(heap) /\ Complete(heap[fac.d._ctx], fac.d))

\* C10 witness: construction with a DH path raised SSL.Error from a build
\* step and left the handle None.
C10_Witness ==
    /\ sres.op = "init"
    /\ sres.raised = "SSL.Error"
    /\ fac.status = "failed"
    /\ fac.d._dhparam = "dh.pem"
    /\ fac.d._ctx = CtxNone


StepsWithoutDH ==
    <<"no_sslv2", "no_sslv3", "no_tlsv1", "no_tlsv1_1",
      "cert", "key", "check", "ca", "cipher", "verify">>

StepsWithDH ==
    <<"no_sslv2", "no_sslv3", "no_tlsv1", "no_tlsv1_1",
      "cert", "key", "check", "ca", "dh", "cipher", "verify">>

\* C13: construction without a DH path succeeds whenever no other build
\* step fails; the context was built by the steps of a build with a DH
\* path, in the same order, less the DH load; the DH load is run exactly
\* when a (non-empty) DH path was given.
C13_DHStepOnlyWithPath ==
    /\ (sres.op = "init" /\ cargs.dh = None /\ cargs.fail \in {"none", "dh"})
       => fac.status = "ok"
    /\ fac.status = "ok" =>
          LET c == heap[fac.d._ctx]
          IN  /\ cargs.dh = "dh.pem" => (c.steps = StepsWithDH /\ c.dh = "dh.pem")
              /\ cargs.dh \in {None, ""} => (c.steps = StepsWithoutDH /\ c.dh = None)
    /\ (sres.op = "init" /\ cargs.dh = "dh.pem" /\ cargs.fail = "dh")
       => fac.status = "failed"

\* C13 witness: construction without a DH path succeeded in an environment
\* where loading DH parameters would fail, and the DH load was not run.
C13_Witness ==
    /\ sres.op = "init"
    /\ cargs.dh = None
    /\ cargs.fail = "dh"
    /\ fac.status = "ok"
    /\ heap[fac.d._ctx].steps = StepsWithoutDH

\* C16: every realized context, of a client or a server factory, with or
\* without DH parameters, has SSLv2, SSLv3, TLS 1.0 and TLS 1.1 disabled,
\* the one cipher suite ECDHE-RSA-AES128-GCM-SHA256, a verify mode with
\* the three flags, and the configured callback; the default callback
\* returns the verdict it is given.
C16_ContextPolicy ==
    /\ \A i \in 1..Len(heap) :
          /\ {"OP_NO_SSLv2", "OP_NO_SSLv3", "OP_NO_TLSv1", "OP_NO_TLSv1_1"}
                \subseteq heap[i].options
          /\ heap[i].method = "TLSv1_2_METHOD"
          /\ heap[i].ciphers = "ECDHE-RSA-AES128-GCM-SHA256"
          /\ {"VERIFY_PEER", "VERIFY_FAIL_IF_NO_PEER_CERT", "VERIFY_CLIENT_ONCE"}
                \subseteq heap[i].verify
    /\ fac.status = "ok" =>
          /\ fac.d.isClient = cargs.client
          /\ heap[fac.d._ctx].callback = IF cargs.cb = None THEN "verify" ELSE cargs.cb
          /\ cargs.cb = None =>
                \A ok \in {0, 1} : DefaultVerify("conn", "x509", 0, 0, ok) = ok

\* C16 witness: a client factory built without DH parameters and without a
\* callback holds a context with the three verify flags and the default
\* callback.
C16_Witness ==
    /\ fac.status = "ok"
    /\ cargs.client
    /\ cargs.dh = None
    /\ cargs.cb = None
    /\ heap[fac.d._ctx].verify =
          {"VERIFY_PEER", "VERIFY_FAIL_IF_NO_PEER_CERT", "VERIFY_CLIENT_ONCE"}
    /\ heap[fac.d._ctx].callback = "verify"

(***************************************************************************)
(* Claims about daemonize, checked under SpecDaemon.                       *)
(***************************************************************************)
InTrace(pr, step) == \E i \in 1..Len(pr.trace) : pr.trace[i] = step

\* What process p did to the PID file during its current daemonize call.
TouchedInCall(p) ==
    \E i \in 1..Len(flog) :
        /\ flog[i].pid = p
        /\ flog[i].call = procs[p].calls
        /\ flog[i].ev \in {"open", "write"}

\* C5: a process that calls daemonize while the PID file exists ends with
\* exit status 1 having done nothing but the existence test: no fork, no
\* chdir/umask/setsid, no redirection, no PID-file write, no exit hook;
\* the PID file is as it was when daemonize raised.
C5_GuardExitsWithoutEffects ==
    \A p \in Pids :
        (procs[p].calls >= 1 /\ procs[p].seen.exists) =>
            /\ procs[p].pc \in {"exiting", "terminated"}
            /\ procs[p].status = 1
            /\ procs[p].err = "SystemExit"
            /\ procs[p].trace = <<"exists", "guard_exit">>
            /\ procs[p].hooks = procs[p].hooks0
            /\ ~TouchedInCall(p)
            /\ \A q \in Pids : procs[q].parent = p => procs[q].calls < procs[p].calls
            /\ procs[p].pc = "exiting" => pidfile = procs[p].seen
            /\ procs[p].calls = 1 =>
                  /\ procs[p].cwd = "/home"
                  /\ procs[p].umask = "022"
                  /\ procs[p].session = "login"
                  /\ \A s \in Streams : procs[p].fds[s] = "tty"

\* C5 witness: the caller found the PID file of another instance and is
\* exiting with status 1, the file still in place.
C5_Witness ==
    \E p \in Pids :
        /\ procs[p].role = "caller"
        /\ procs[p].seen.exists
        /\ procs[p].pc = "exiting"
        /\ procs[p].status = 1
        /\ pidfile.exists
        /\ pidfile.content = 99

\* C6: with a single caller, a process that has returned from daemonize is
\* the child of the second fork, the PID file holds its id (not an
\* ancestor's), the removal is registered, and once that process has
\* exited the PID file is gone.
C6_PidFileOwnIdAndRemoved ==
    \A p \in Pids :
        /\ procs[p].pc = "daemonized" =>
              /\ procs[p].role = "child2"
              /\ pidfile.exists
              /\ pidfile.content = p
              /\ pidfile.content # procs[p].parent
              /\ pidfile.content # procs[procs[p].parent].parent
              /\ procs[p].hooks >= 1
        /\ (procs[p].pc = "terminated" /\ InTrace(procs[p], "register")) =>
              ~pidfile.exists

\* C6 witness: the daemon wrote its id, returned from daemonize, then
\* exited normally and its exit hook removed the file.
C6_Witness ==
    \E p \in Pids :
        /\ procs[p].role = "child2"
        /\ procs[p].pc = "terminated"
        /\ procs[p].status = 0
        /\ procs[p].hooks = 1
        /\ \E i \in 1..Len(flog) : flog[i] = [pid |-> p, ev |-> "write", call |-> 1]
        /\ flog[Len(flog)] = [pid |-> p, ev |-> "remove", call |-> 1]
        /\ ~pidfile.exists

ForkOrOpenErrors ==
    {"RuntimeError: fork #1 failed", "RuntimeError: fork #2 failed", "OSError: open"}

\* C7: when a fork or the opening of a redirection target fails, daemonize
\* raises and the process never returns from it; the PID file has not been
\* opened or written and no exit hook has been registered.
C7_FailureBeforePidFile ==
    \A p \in Pids :
        LET pr == procs[p]
        IN  /\ (pr.trace # <<>> /\ pr.trace[Len(pr.trace)] \in
                   {"fork1_failed", "fork2_failed", "open_failed"})
               => pr.err \in ForkOrOpenErrors
            /\ pr.err \in ForkOrOpenErrors =>
                  /\ pr.pc \in {"raised", "exiting", "terminated"}
                  /\ pr.hooks = pr.hooks0
                  /\ ~InTrace(pr, "open_pid")
                  /\ ~InTrace(pr, "write_pid")
                  /\ ~InTrace(pr, "register")
                  /\ ~TouchedInCall(p)
                  /\ ~pidfile.exists
                  /\ flog = <<>>

\* C7 witness: stdin and stdout were redirected, opening the stderr target
\* failed, and daemonize raised in the child of the second fork.
C7_Witness ==
    \E p \in Pids :
        /\ procs[p].role = "child2"
        /\ procs[p].pc = "raised"
        /\ procs[p].err = "OSError: open"
        /\ procs[p].fds["stdout"] = "target"
        /\ procs[p].fds["stderr"] = "tty"
        /\ ~pidfile.exists

FullSteps ==
    <<"exists", "fork1", "chdir", "umask", "setsid", "fork2", "flush",
      "stdin", "stdout", "stderr", "open_pid", "write_pid", "register">>

EndEvents ==
    {"guard_exit", "fork1_failed", "fork2_failed", "open_failed", "pidfile_failed"}

IsPrefix(s, t) == Len(s) <= Len(t) /\ s = SubSeq(t, 1, Len(s))

\* The steps of the trace without the event that ended the call, if any.
StepsDone(pr) ==
    IF pr.trace # <<>> /\ pr.trace[Len(pr.trace)] \in EndEvents
    THEN SubSeq(pr.trace, 1, Len(pr.trace) - 1)
    ELSE pr.trace

\* C14: in every process the steps of daemonize happen in the order
\* existence test, first fork, chdir, umask, setsid, second fork, stdin,
\* stdout, stderr, PID-file write, registration of the removal, none
\* before its predecessor: the PID file is written only with all three
\* streams redirected, the removal registered only with the file written.
C14_StepOrder ==
    \A p \in Pids :
        LET pr == procs[p]
        IN  /\ IsPrefix(StepsDone(pr), FullSteps)
            /\ InTrace(pr, "fork2") =>
                  (pr.cwd = "/" /\ pr.umask = "0" /\ pr.session = "own")
            /\ (\E i \in 1..Len(flog) : flog[i].pid = p /\ flog[i].ev \in {"open", "write"})
               => \A s \in Streams : pr.fds[s] = "target"
            /\ pr.hooks > 0 =>
                  \E i \in 1..Len(flog) : flog[i].pid = p /\ flog[i].ev = "write"

\* C14 witness: a process has returned from daemonize having done every
\* step.
C14_Witness ==
    \E p \in Pids :
        /\ procs[p].pc = "daemonized"
        /\ procs[p].trace = FullSteps
        /\ procs[p].hooks = 1

\* C15: the parent side of each fork exits with status 0 right after its
\* fork and does nothing more; only the child of the second fork goes on
\* to the redirections, writes the PID file and returns from daemonize,
\* and no other process does.
C15_OnlySecondChildGoesOn ==
    /\ \A p \in Pids :
          LET pr == procs[p]
          IN  /\ (pr.role = "caller" /\ InTrace(pr, "fork1")) =>
                    /\ pr.pc \in {"exiting", "terminated"}
                    /\ pr.status = 0
                    /\ pr.trace = <<"exists", "fork1">>
                    /\ pr.cwd = "/home" /\ pr.session = "login"
              /\ (pr.role = "child1" /\ InTrace(pr, "fork2")) =>
                    /\ pr.pc \in {"exiting", "terminated"}
                    /\ pr.status = 0
                    /\ pr.trace = <<"exists", "fork1", "chdir", "umask", "setsid", "fork2">>
              /\ pr.role # "child2" =>
                    /\ \A s \in Streams : pr.fds[s] = "tty"
                    /\ pr.hooks = 0
                    /\ pr.pc # "daemonized"
                    /\ \A i \in 1..Len(flog) : flog[i].pid # p
    /\ Cardinality({p \in Pids : InTrace(procs[p], "register")}) <= 1
    /\ Cardinality({flog[i].pid : i \in 1..Len(flog)}) <= 1

\* C15 witness: the child of the second fork has returned from daemonize
\* and both ancestors have ended with status 0.
C15_Witness ==
    \E p \in Pids :
        /\ procs[p].pc = "daemonized"
        /\ procs[p].role = "child2"
        /\ procs[procs[p].parent].pc = "terminated"
        /\ procs[procs[p].parent].status = 0
        /\ procs[procs[procs[p].parent].parent].pc = "terminated"
        /\ procs[procs[procs[p].parent].parent].status = 0
        /\ Len(procs) = 3

\* C19: a second call of daemonize by the process that the first call
\* daemonized, its PID file still there, takes the already-running guard:
\* no fork, no redirection, no PID-file write, exit status 1, and the exit
\* function registered by the first call then removes the PID file.
C19_SecondCallExitsAndRemoves ==
    \A p \in Pids :
        LET pr == procs[p]
        IN  (pr.calls >= 2 /\ pr.seen.exists /\ pr.seen.content = p) =>
                /\ pr.pc \in {"exiting", "terminated"}
                /\ pr.status = 1
                /\ pr.trace = <<"exists", "guard_exit">>
                /\ ~TouchedInCall(p)
                /\ \A q \in Pids : procs[q].parent # p
                /\ pr.hooks = 1
                /\ pr.pc = "exiting" => pidfile = pr.seen
                /\ pr.pc = "terminated" =>
                      /\ ~pidfile.exists
                      /\ flog[Len(flog)] = [pid |-> p, ev |-> "remove", call |-> pr.calls]

\* C19 witness: the daemonized process called daemonize again, ended with
\* status 1 and its exit function removed the PID file.
C19_Witness ==
    \E p \in Pids :
        /\ procs[p].role = "child2"
        /\ procs[p].calls = 2
        /\ procs[p].pc = "terminated"
        /\ procs[p].status = 1
        /\ ~pidfile.exists

(***************************************************************************)
(* Claim about concurrent callers of daemonize, checked under SpecRace.    *)
(***************************************************************************)
\* C18: of two processes that call daemonize concurrently with the same
\* PID-file path, the file absent, at most one returns from daemonize; the
\* PID file is not written by two processes; and the PID file of a running
\* daemonized process is not removed by the exit of another process.
C18_OneDaemonPerPidFile ==
    /\ Cardinality({p \in Pids : InTrace(procs[p], "register")}) <= 1
    /\ Cardinality({flog[i].pid : i \in {j \in 1..Len(flog) : flog[j].ev = "write"}}) <= 1
    /\ \A p \in Pids :
          procs[p].pc = "daemonized" =>
              ~\E i, j \in 1..Len(flog) :
                  /\ i < j
                  /\ flog[i] = [pid |-> p, ev |-> "write", call |-> 1]
                  /\ flog[j].ev = "remove"
                  /\ flog[j].pid # p

(***************************************************************************)
(* Claim about parse_args, checked under SpecArgs.                         *)
(***************************************************************************)
\* C12: when the file of ca, key or cert does not exist, parse_args raises;
\* a missing dhparam file raises nothing and makes the setting None; every
\* path setting kept by a parse_args that returns is absolute.
C12_MissingMandatoryIsFatal ==
    ares.done =>
        /\ (\E a \in {"ca", "key", "cert"} : a \notin onDisk)
           => ares.raised = "RuntimeError"
        /\ ({"ca", "key", "cert"} \subseteq onDisk /\ "dhparam" \notin onDisk)
           => (ares.raised = None /\ config["dhparam"] = None)
        /\ ares.raised = None =>
              \A a \in PathArgs : config[a] # None => config[a] = "abs"

(***************************************************************************)
(* Claims about NullProxy, checked under SpecNull.                         *)
(***************************************************************************)
\* C20 as stated: every NullProxy() and every chain of attribute accesses
\* and calls on it gives the one instance and raises nothing.
C20_AnyChainGivesInstance ==
    nchain # <<>> =>
        /\ nraised = None
        /\ ncur = Instance(ninst)
        /\ nobjs = 1

\* The names that the normal attribute lookup does not find on a
\* NullProxy object, and _instance, which it finds holding the instance.
PlainOps == {"new", "call", "info", "x", "_instance"}

\* C20 amended: every NullProxy() gives the same instance, and so does
\* every chain of calls and of accesses to attributes that the class and
\* object do not define themselves (or to _instance); nothing is raised.
C20_PlainChainGivesInstance ==
    /\ nobjs <= 1
    /\ (nchain # <<>> /\ \A i \in 1..Len(nchain) : nchain[i] \in PlainOps) =>
          /\ nraised = None
          /\ ncur = Instance(ninst)
          /\ ninst = 1
          /\ nobjs = 1

\* C20 witness: a second NullProxy() followed by an attribute access and
\* two calls gave the first instance.
C20_Witness ==
    /\ nchain = <<"new", "info", "call", "call">>
    /\ ncur = Instance(1)
    /\ nobjs = 1

====
